---- MODULE Spec2Model ----
(***************************************************************************)
(* Honeypot conversation pipeline: the scam classifier, the engagement     *)
(* orchestrator (classify -> engage -> check_exit -> extraction) and the   *)
(* session operations (process, get, end, clear, HTTP force-end).          *)
(*                                                                         *)
(* Representation                                                          *)
(*   - Python None / a value v  : the sequences <<>> / <<v>> (None, Some). *)
(*   - a text                   : a sequence of lexemes; whitespace        *)
(*                                lexemes are explicit, two adjacent word  *)
(*                                lexemes are separated by one space.      *)
(*   - a float in [0,1]         : an integer number of hundredths.         *)
(*   - a JSON value             : a record tagged by its JSON type.        *)
(***************************************************************************)
EXTENDS Integers, Sequences, FiniteSets, TLC

VARIABLES sessions, last, hist

vars == <<sessions, last, hist>>

(***************************************************************************)
(* Bounds of the model                                                     *)
(***************************************************************************)
MaxCalls == 7

SessionIds == {"s1"}

(***************************************************************************)
(* Option values                                                           *)
(***************************************************************************)
None == <<>>

Some(v) == <<v>>

Val(o) == o[1]

(***************************************************************************)
(* Texts                                                                   *)
(***************************************************************************)
Whitespace == {" ", "\t", "\n"}

RECURSIVE lstrip(_)
lstrip(t) ==
    IF t # <<>> /\ Head(t) \in Whitespace THEN lstrip(Tail(t)) ELSE t

RECURSIVE rstrip(_)
rstrip(t) ==
    IF t # <<>> /\ t[Len(t)] \in Whitespace
    THEN rstrip(SubSeq(t, 1, Len(t) - 1))
    ELSE t

strip(t) == rstrip(lstrip(t))

\* `not message or not message.strip()`
IsBlank(t) == t = <<>> \/ strip(t) = <<>>

\* str.split(): the words of a text
split(t) == SelectSeq(t, LAMBDA x : x \notin Whitespace)

ScamText == <<"send", "OTP", "to", "scammer@upi">>

Messages == { <<>>, <<" ", "\n">>, ScamText }

(***************************************************************************)
(* app/orchestration/state.py, app/agents/scam_classifier.py constants     *)
(***************************************************************************)
MAX_TURNS == 6

FALLBACK_IS_SCAM == TRUE

FALLBACK_CONFIDENCE == 70

Reason(words) == [words |-> words, ellipsis |-> FALSE]

FALLBACK_REASON == Reason(<<"Unreliable", "classification", "output">>)

EMPTY_MESSAGE_REASON == Reason(<<"Empty", "or", "invalid", "message">>)

NO_RESPONSE_REASON == Reason(<<"No", "response", "from", "classifier">>)

NODE_ERROR_REASON ==
    Reason(<<"Classification", "error", "-", "defaulting", "to", "scam">>)

MaxReasonWords == 25

ScamClassificationResult(s, c, r) ==
    [is_scam |-> s, confidence |-> c, reason |-> r]

FailSafe ==
    ScamClassificationResult(FALLBACK_IS_SCAM, FALLBACK_CONFIDENCE,
                             FALLBACK_REASON)

(***************************************************************************)
(* JSON values and the Python conversions applied to them                  *)
(***************************************************************************)
JNull == [t |-> "null"]

JBool(b) == [t |-> "bool", b |-> b]

JNum(n) == [t |-> "num", n |-> n]

JNaN == [t |-> "nan"]

JStr(s) == [t |-> "str", s |-> s]

JList(items) == [t |-> "list", items |-> items]

JObj(f) == [t |-> "obj", f |-> f]

\* bool(x): Python truthiness; never raises
pybool(j) ==
    CASE j.t = "null" -> FALSE
      [] j.t = "bool" -> j.b
      [] j.t = "num"  -> j.n # 0
      [] j.t = "nan"  -> TRUE
      [] j.t = "str"  -> j.s # <<>>
      [] j.t = "list" -> j.items # <<>>
      [] j.t = "obj"  -> DOMAIN j.f # {}

\* the strings float() accepts, with their values in hundredths
FloatLiterals == { <<"0.5">>, <<"1.5">> }

FloatLiteralValue(s) == IF s = <<"0.5">> THEN 50 ELSE 150

\* float(x): ok = FALSE stands for the ValueError / TypeError it raises
pyfloat(j) ==
    CASE j.t = "bool" -> [ok |-> TRUE, nan |-> FALSE, v |-> IF j.b THEN 100 ELSE 0]
      [] j.t = "num"  -> [ok |-> TRUE, nan |-> FALSE, v |-> j.n]
      [] j.t = "nan"  -> [ok |-> TRUE, nan |-> TRUE, v |-> 0]
      [] j.t = "str"  -> IF j.s \in FloatLiterals
                         THEN [ok |-> TRUE, nan |-> FALSE,
                               v |-> FloatLiteralValue(j.s)]
                         ELSE [ok |-> FALSE, nan |-> FALSE, v |-> 0]
      [] OTHER        -> [ok |-> FALSE, nan |-> FALSE, v |-> 0]

\* str(x): never raises; the text of a non-string value
pystr(j) ==
    CASE j.t = "str"  -> j.s
      [] j.t = "null" -> <<"None">>
      [] j.t = "bool" -> IF j.b THEN <<"True">> ELSE <<"False">>
      [] j.t = "num"  -> <<"<number>">>
      [] j.t = "nan"  -> <<"nan">>
      [] j.t = "list" -> IF j.items = <<>> THEN <<"[]">>
                         ELSE [i \in 1..Len(j.items) |-> "<item>"]
      [] j.t = "obj"  -> <<"<dict>">>

\* clamp without the upper bound  min(1.0, confidence)
clamp_no_upper_bound(f) ==
    IF f.nan THEN 100
    ELSE IF f.v > 0 THEN f.v ELSE 0

\* max(0.0, min(1.0, confidence)); min(1.0, nan) is 1.0 in Python
clamp(f) ==
    IF f.nan THEN 100
    ELSE LET m == IF f.v < 100 THEN f.v ELSE 100
         IN  IF m > 0 THEN m ELSE 0

(***************************************************************************)
(* Model responses: the content of a completion is a sequence of lines     *)
(***************************************************************************)
\* lines that start with three backquotes: an opening fence with or without
\* a language tag, and the bare fence that also closes a block
FenceLines == {"<fence>json", "<fence>"}

ShortReason == <<"asks", "for", "OTP">>

LongWords == 26

LongReason == [i \in 1..LongWords |-> "w"]

DocScam ==
    JObj([is_scam |-> JBool(TRUE), confidence |-> JNum(90),
          reason |-> JStr(ShortReason)])

DocBenign ==
    JObj([is_scam |-> JBool(FALSE), confidence |-> JNum(80),
          reason |-> JStr(<<"ordinary", "chat">>)])

\* json.loads on one line of text: the documents the model knows
JsonDocNames ==
    {"scam", "benign", "list", "number", "empty_object",
     "no_is_scam", "no_confidence", "no_reason",
     "is_scam_null", "is_scam_string", "is_scam_zero",
     "confidence_word", "confidence_null", "confidence_string",
     "confidence_high", "confidence_negative", "confidence_nan",
     "reason_number", "reason_long"}

JsonDocs ==
    [d \in JsonDocNames |->
       CASE d = "scam" -> DocScam
         [] d = "benign" -> DocBenign
         [] d = "list" -> JList(<<JBool(FALSE), JNum(90)>>)
         [] d = "number" -> JNum(1)
         [] d = "empty_object" -> JObj(<<>>)
         [] d = "no_is_scam" ->
              JObj([confidence |-> JNum(90), reason |-> JStr(ShortReason)])
         [] d = "no_confidence" ->
              JObj([is_scam |-> JBool(FALSE), reason |-> JStr(ShortReason)])
         [] d = "no_reason" ->
              JObj([is_scam |-> JBool(FALSE), confidence |-> JNum(90)])
         [] d = "is_scam_null" ->
              JObj([is_scam |-> JNull, confidence |-> JNum(90),
                    reason |-> JStr(ShortReason)])
         [] d = "is_scam_string" ->
              JObj([is_scam |-> JStr(<<"false">>), confidence |-> JNum(90),
                    reason |-> JStr(ShortReason)])
         [] d = "is_scam_zero" ->
              JObj([is_scam |-> JNum(0), confidence |-> JNum(90),
                    reason |-> JStr(ShortReason)])
         [] d = "confidence_word" ->
              JObj([is_scam |-> JBool(FALSE), confidence |-> JStr(<<"high">>),
                    reason |-> JStr(ShortReason)])
         [] d = "confidence_null" ->
              JObj([is_scam |-> JBool(FALSE), confidence |-> JNull,
                    reason |-> JStr(ShortReason)])
         [] d = "confidence_string" ->
              JObj([is_scam |-> JBool(TRUE), confidence |-> JStr(<<"0.5">>),
                    reason |-> JStr(ShortReason)])
         [] d = "confidence_high" ->
              JObj([is_scam |-> JBool(TRUE), confidence |-> JNum(170),
                    reason |-> JStr(ShortReason)])
         [] d = "confidence_negative" ->
              JObj([is_scam |-> JBool(TRUE), confidence |-> JNum(-20),
                    reason |-> JStr(ShortReason)])
         [] d = "confidence_nan" ->
              JObj([is_scam |-> JBool(TRUE), confidence |-> JNaN,
                    reason |-> JStr(ShortReason)])
         [] d = "reason_number" ->
              JObj([is_scam |-> JBool(TRUE), confidence |-> JNum(90),
                    reason |-> JNum(5)])
         [] d = "reason_long" ->
              JObj([is_scam |-> JBool(TRUE), confidence |-> JNum(90),
                    reason |-> JStr(LongReason)])]

\* json.loads(cleaned): ok = FALSE stands for json.JSONDecodeError
json_loads(cleaned) ==
    IF Len(cleaned) = 1 /\ cleaned[1] \in JsonDocNames
    THEN [ok |-> TRUE, data |-> JsonDocs[cleaned[1]]]
    ELSE [ok |-> FALSE, data |-> JNull]

\* removal of a markdown code fence around the response
strip_fences(response_text) ==
    LET cleaned == strip(response_text)
    IN  IF cleaned # <<>> /\ Head(cleaned) \in FenceLines
        THEN LET lines1 == Tail(cleaned)
                 lines2 == IF lines1 # <<>> /\ lines1[Len(lines1)] = "<fence>"
                           THEN SubSeq(lines1, 1, Len(lines1) - 1)
                           ELSE lines1
             IN  strip(lines2)
        ELSE cleaned

(***************************************************************************)
(* ScamClassifierAgent                                                     *)
(***************************************************************************)
\* reason.split(); cut to 25 words and append "..." when longer
truncate_reason(reason) ==
    LET words == split(reason)
    IN  IF Len(words) > MaxReasonWords
        THEN [words |-> SubSeq(words, 1, MaxReasonWords), ellipsis |-> TRUE]
        ELSE [words |-> reason, ellipsis |-> FALSE]

\* lines 135-152: the conversions of the three fields and the result
typed_result(is_scam, confidence, reason) ==
    IF ~confidence.ok THEN FailSafe
    ELSE ScamClassificationResult(is_scam, clamp(confidence),
                                  truncate_reason(pystr(reason)))

\* lines 124-133: the checks on the parsed document
validated_result(parsed) ==
    IF ~parsed.ok THEN FailSafe
    ELSE IF parsed.data.t # "obj" THEN FailSafe
    ELSE IF "is_scam" \notin DOMAIN parsed.data.f THEN FailSafe
    ELSE IF "confidence" \notin DOMAIN parsed.data.f THEN FailSafe
    ELSE IF "reason" \notin DOMAIN parsed.data.f THEN FailSafe
    ELSE typed_result(pybool(parsed.data.f.is_scam),
                      pyfloat(parsed.data.f.confidence),
                      parsed.data.f.reason)

parse_response(response_text) ==
    validated_result(json_loads(strip_fences(response_text)))

\* a response of the model API: the call raises, or returns content
\* (content <<>> is the empty / missing content)
Raises == [kind |-> "raise", content |-> <<>>]

Content(lines) == [kind |-> "content", content |-> lines]

classify(message, response) ==
    IF IsBlank(message)
    THEN ScamClassificationResult(FALLBACK_IS_SCAM, FALLBACK_CONFIDENCE,
                                  EMPTY_MESSAGE_REASON)
    ELSE IF response.kind = "raise" THEN FailSafe
    ELSE IF response.content = <<>>
    THEN ScamClassificationResult(FALLBACK_IS_SCAM, FALLBACK_CONFIDENCE,
                                  NO_RESPONSE_REASON)
    ELSE parse_response(response.content)

(***************************************************************************)
(* HoneypotEngagementAgent                                                 *)
(***************************************************************************)
FALLBACK_RESPONSE ==
    <<"Sorry,", "I", "didn't", "understand.", "Can", "you", "explain",
      "again?">>

\* lexemes on which  https?://|www\.  matches
UrlLexemes == {"https://pay.example", "www.pay.example"}

\* phrases on which one of UNSAFE_PATTERNS matches: the words have to follow
\* each other directly.  A markdown or emoji lexeme stands attached to the
\* word next to it (as in  as an *AI*), so a phrase with such a lexeme inside
\* does not match, and removing the lexeme leaves the words consecutive.
UnsafePhrases == { <<"as", "an", "AI">>, <<"payment", "sent">> }

\* re.search(pattern, response) for one phrase
contains(t, phrase) ==
    \E i \in 1..(Len(t) - Len(phrase) + 1) :
        SubSeq(t, i, i + Len(phrase) - 1) = phrase

\* the loop over UNSAFE_PATTERNS
matches_unsafe(t) == \E phrase \in UnsafePhrases : contains(t, phrase)

\* re.search(r"https?://|www\.", response)
matches_url(t) == \E i \in 1..Len(t) : t[i] \in UrlLexemes

\* lexemes removed by the markdown substitution  \*\*|__|\*|_|`|#
MarkdownLexemes == {"**", "__", "*", "_", "#"}

\* runs of sentence terminators  [.!?]+
SentenceEnds == {".", "!", "?"}

EmojiLexemes == {"<emoji>"}

MaxSentences == 3

Remove(t, lexemes) == SelectSeq(t, LAMBDA x : x \notin lexemes)

\* re.split(r"[.!?]+", response), each piece stripped, empty pieces dropped
RECURSIVE sentences_of(_, _)
sentences_of(t, cur) ==
    IF t = <<>>
    THEN IF strip(cur) = <<>> THEN <<>> ELSE <<strip(cur)>>
    ELSE IF Head(t) \in SentenceEnds
    THEN (IF strip(cur) = <<>> THEN <<>> ELSE <<strip(cur)>>)
         \o sentences_of(Tail(t), <<>>)
    ELSE sentences_of(Tail(t), Append(cur, Head(t)))

\* ". ".join(sentences[:3]) + "."
RECURSIVE join_sentences(_)
join_sentences(ss) ==
    IF ss = <<>> THEN <<>>
    ELSE Head(ss) \o <<".">> \o join_sentences(Tail(ss))

validate_output(response) ==
    IF matches_unsafe(response) THEN FALLBACK_RESPONSE
    ELSE IF matches_url(response) THEN FALLBACK_RESPONSE
    ELSE LET plain == Remove(response, MarkdownLexemes)
             sentences == sentences_of(plain, <<>>)
             clipped == IF Len(sentences) > MaxSentences
                        THEN join_sentences(SubSeq(sentences, 1, MaxSentences))
                        ELSE plain
         IN  strip(Remove(clipped, EmojiLexemes))

\* respond without the short-circuit for an empty or blank message
respond_no_blank_check(message, response) ==
    IF response.kind = "raise" THEN FALLBACK_RESPONSE
    ELSE IF response.content = <<>> THEN FALLBACK_RESPONSE
    ELSE validate_output(response.content)

respond(message, response) ==
    IF IsBlank(message) THEN FALLBACK_RESPONSE
    ELSE IF response.kind = "raise" THEN FALLBACK_RESPONSE
    ELSE IF response.content = <<>> THEN FALLBACK_RESPONSE
    ELSE validate_output(response.content)

(***************************************************************************)
(* Indicator extraction (app/agents/intel_extractor.py)                    *)
(***************************************************************************)
ScamIntelResult(b, u, p, o) ==
    [bank_accounts |-> b, upi_ids |-> u, phishing_links |-> p,
     other_indicators |-> o]

EmptyIntel == ScamIntelResult(<<>>, <<>>, <<>>, <<>>)

\* list(set(xs)): the distinct elements (their order is not significant;
\* the order of first occurrence is used)
RECURSIVE list_set(_)
list_set(xs) ==
    IF xs = <<>> THEN <<>>
    ELSE LET init == list_set(SubSeq(xs, 1, Len(xs) - 1))
             x == xs[Len(xs)]
         IN  IF \E i \in 1..Len(init) : init[i] = x THEN init
             ELSE Append(init, x)

map(f(_), xs) == [i \in 1..Len(xs) |-> f(xs[i])]

\* lexemes matched by UPI_PATTERN, and str.lower() on them
UpiLexemes == {"scammer@upi", "Fraud@YBL"}

lower(x) == IF x = "Fraud@YBL" THEN "fraud@ybl" ELSE x

\* lexemes matched by URL_PATTERN
LinkLexemes == {"https://pay.example", "bit.ly/x1"}

\* lexemes matched by IFSC_PATTERN, and str.upper() on them
IfscLexemes == {"SBIN0001234", "sbin0001234"}

upper(x) == IF x = "sbin0001234" THEN "SBIN0001234" ELSE x

\* the parts of BANK_ACCOUNT_PATTERN: the keyword, the separators, the
\* optional "no"/"number"/"num", and the run of 9 to 18 digits
KeywordWords == {"account", "a/c", "acc", "ac"}

\* the pattern has no word boundary before the keyword alternative, so it
\* also matches at the end of a longer word ("mac" ends in "ac")
AccountKeywords == KeywordWords \cup {"mac"}

Separators == {" ", "\t", "\n", ".", ":"}

NumberWords == {"no", "no.", "number", "num"}

DigitRuns == {"123456789012345", "9876543210"}

\* the digit run at position i is captured when a keyword, then an optional
\* number word, precede it, with only separators in between
RECURSIVE account_prefix(_, _, _)
account_prefix(text, i, seen_number_word) ==
    IF i < 1 THEN FALSE
    ELSE IF text[i] \in AccountKeywords THEN TRUE
    ELSE IF text[i] \in Separators
    THEN account_prefix(text, i - 1, seen_number_word)
    ELSE IF text[i] \in NumberWords /\ ~seen_number_word
    THEN account_prefix(text, i - 1, TRUE)
    ELSE FALSE

is_account_at(text, i) ==
    text[i] \in DigitRuns /\ account_prefix(text, i - 1, FALSE)

\* the lexemes text[i] at the positions i where P(text, i) holds, in order
positions(text, P(_, _)) ==
    LET hits == SelectSeq([i \in 1..Len(text) |-> i], LAMBDA i : P(text, i))
    IN  [k \in 1..Len(hits) |-> text[hits[k]]]

extract_via_regex(text) ==
    LET upi_matches == SelectSeq(text, LAMBDA x : x \in UpiLexemes)
        url_matches == SelectSeq(text, LAMBDA x : x \in LinkLexemes)
        ifsc_matches == SelectSeq(text, LAMBDA x : x \in IfscLexemes)
        account_matches == positions(text, is_account_at)
    IN  ScamIntelResult(list_set(account_matches),
                        list_set(map(lower, upi_matches)),
                        list_set(url_matches),
                        list_set(map(upper, ifsc_matches)))

merge(a, b) ==
    ScamIntelResult(list_set(a.bank_accounts \o b.bank_accounts),
                    list_set(a.upi_ids \o b.upi_ids),
                    list_set(a.phishing_links \o b.phishing_links),
                    list_set(a.other_indicators \o b.other_indicators))

\* "\n".join(f"{role}: {content}")
RECURSIVE format_conversation(_)
format_conversation(conversation) ==
    IF conversation = <<>> THEN <<>>
    ELSE LET m == Head(conversation)
             line == <<m.role, ":", " ">> \o m.content
         IN  IF Len(conversation) = 1 THEN line
             ELSE line \o <<"\n">> \o format_conversation(Tail(conversation))

IntelFields ==
    {"bank_accounts", "upi_ids", "phishing_links", "other_indicators"}

\* the validated result, or None when the schema check fails
validate_llm_result(data) ==
    IF data.t # "obj" THEN None
    ELSE IF \E k \in IntelFields :
               \/ k \notin DOMAIN data.f
               \/ data.f[k].t # "list"
               \/ \E i \in 1..Len(data.f[k].items) :
                      data.f[k].items[i].t # "str"
    THEN None
    ELSE LET strings(k) ==
                 [i \in 1..Len(data.f[k].items) |-> data.f[k].items[i].s]
         IN  Some(ScamIntelResult(strings("bank_accounts"),
                                  strings("upi_ids"),
                                  strings("phishing_links"),
                                  strings("other_indicators")))

\* the documents json.loads yields for the extraction prompt (an indicator
\* string is a single lexeme)
Strs(xs) == JList([i \in 1..Len(xs) |-> JStr(xs[i])])

IntelDocNames ==
    {"intel_empty", "intel_extra", "intel_missing", "intel_not_list",
     "intel_non_string", "intel_fifth_field", "intel_mixed_case"}

IntelDocs ==
    [d \in IntelDocNames |->
       CASE d = "intel_empty" ->
              JObj([bank_accounts |-> Strs(<<>>), upi_ids |-> Strs(<<>>),
                    phishing_links |-> Strs(<<>>),
                    other_indicators |-> Strs(<<>>)])
         [] d = "intel_extra" ->
              JObj([bank_accounts |-> Strs(<<>>),
                    upi_ids |-> Strs(<<"scammer@upi", "other@upi">>),
                    phishing_links |-> Strs(<<>>),
                    other_indicators |-> Strs(<<"urgency">>)])
         [] d = "intel_missing" ->
              JObj([bank_accounts |-> Strs(<<>>), upi_ids |-> Strs(<<>>),
                    phishing_links |-> Strs(<<>>)])
         [] d = "intel_not_list" ->
              JObj([bank_accounts |-> JNull, upi_ids |-> Strs(<<>>),
                    phishing_links |-> Strs(<<>>),
                    other_indicators |-> Strs(<<>>)])
         [] d = "intel_non_string" ->
              JObj([bank_accounts |-> Strs(<<>>),
                    upi_ids |-> JList(<<JStr("other@upi"), JNum(7)>>),
                    phishing_links |-> Strs(<<>>),
                    other_indicators |-> Strs(<<>>)])
         [] d = "intel_fifth_field" ->
              JObj([bank_accounts |-> Strs(<<>>),
                    upi_ids |-> Strs(<<"scammer@upi">>),
                    phishing_links |-> Strs(<<>>),
                    other_indicators |-> Strs(<<>>),
                    notes |-> JStr(<<"asks", "for", "OTP">>)])
         [] d = "intel_mixed_case" ->
              JObj([bank_accounts |-> Strs(<<>>),
                    upi_ids |-> Strs(<<"Fraud@YBL">>),
                    phishing_links |-> Strs(<<>>),
                    other_indicators |-> Strs(<<"sbin0001234">>)])]

intel_json_loads(cleaned) ==
    IF Len(cleaned) = 1 /\ cleaned[1] \in IntelDocNames
    THEN [ok |-> TRUE, data |-> IntelDocs[cleaned[1]]]
    ELSE json_loads(cleaned)

\* llm: "no_client" when the extractor has no API key, else a model response
NoClient == [kind |-> "no_client", content |-> <<>>]

\* lines 245-249: the schema check on the parsed document
validated_intel(parsed) ==
    IF ~parsed.ok THEN None ELSE validate_llm_result(parsed.data)

extract_via_llm(conversation_text, llm) ==
    IF llm.kind = "no_client" THEN None
    ELSE IF llm.kind = "raise" THEN None
    ELSE IF llm.content = <<>> THEN None
    ELSE validated_intel(intel_json_loads(strip_fences(llm.content)))

\* merge_results that drops the deterministic result when the model-assisted
\* extraction gave nothing
merge_results_drops_floor(regex_result, llm_result) ==
    IF llm_result # None THEN merge(regex_result, Val(llm_result))
    ELSE EmptyIntel

\* lines 279-283: merge when the model-assisted result is present
merge_results(regex_result, llm_result) ==
    IF llm_result # None THEN merge(regex_result, Val(llm_result))
    ELSE regex_result

\* lines 273-283: both extractions over the formatted transcript
extract_text(conversation_text, llm) ==
    merge_results(extract_via_regex(conversation_text),
                  extract_via_llm(conversation_text, llm))

extract(conversation, llm) ==
    IF conversation = <<>> THEN EmptyIntel
    ELSE extract_text(format_conversation(conversation), llm)

(***************************************************************************)
(* Outcomes of the external collaborators, drawn by the environment        *)
(***************************************************************************)
\* the agent cannot be constructed (no API key, prompt file missing)
CtorError == [kind |-> "ctor_error", content |-> <<>>]

ClassifierOutcomes ==
    { CtorError, Raises, Content(<<>>),
      Content(<<"scam">>), Content(<<"benign">>),
      Content(<<"<fence>json", "is_scam_null", "<fence>">>),
      Content(<<"Sure,", "here", "is", "the", "verdict">>),
      Content(<<"list">>), Content(<<"no_confidence">>),
      Content(<<"confidence_word">>) }

OkReply == <<"Okay", "sir", ".", "What", "should", "I", "do", "?">>

ResponderOutcomes ==
    { CtorError, Raises, Content(OkReply),
      Content(<<"as", "an", "AI", "I", "cannot", "pay">>) }

ExtractorOutcomes ==
    { CtorError, NoClient, Raises, Content(<<"intel_extra">>),
      Content(<<"intel_missing">>) }

(***************************************************************************)
(* Graph nodes (app/orchestration/graph.py)                                *)
(***************************************************************************)
Message(role, content) == [role |-> role, content |-> content]

BENIGN_STOP == "Message classified as benign"

MAX_TURNS_STOP == "Maximum turns (6) reached"

EMPTY_INPUT_STOP == "Empty user input"

\* the user entry appended to the transcript under the role of the agent
with_user_entry_wrong_role(state) ==
    [state EXCEPT
       !.conversation = Append(@, Message("agent", state.user_message))]

\* lines 62-65 and 79-81: the user entry appended to the transcript
with_user_entry(state) ==
    [state EXCEPT
       !.conversation = Append(@, Message("user", state.user_message))]

\* store_classification without the benign stop of lines 67-70
store_classification_no_benign_stop(state, result) ==
    [with_user_entry(state) EXCEPT !.classification = Some(result)]

\* lines 56-70: the verdict stored, and the benign stop
store_classification(state, result) ==
    IF ~result.is_scam
    THEN [with_user_entry(state) EXCEPT
            !.classification = Some(result),
            !.is_complete = TRUE,
            !.stop_reason = Some(BENIGN_STOP)]
    ELSE [with_user_entry(state) EXCEPT !.classification = Some(result)]

classify_node(state, outcome) ==
    IF outcome.kind # "ctor_error"
    THEN store_classification(state, classify(state.user_message, outcome))
    ELSE [with_user_entry(state) EXCEPT
            !.classification =
                Some(ScamClassificationResult(TRUE, 70, NODE_ERROR_REASON))]

\* store_reply that forgets to count the turn
store_reply_no_increment(state, reply) ==
    [state EXCEPT
       !.agent_reply = Some(reply),
       !.conversation = Append(@, Message("agent", reply))]

\* lines 100-104 and 109-113: the reply stored and the turn counted
store_reply(state, reply) ==
    [state EXCEPT
       !.agent_reply = Some(reply),
       !.conversation = Append(@, Message("agent", reply)),
       !.turns = @ + 1]

\* engage_node without the fallback of its except clause
engage_node_no_fallback(state, outcome) ==
    IF state.is_complete THEN state
    ELSE IF outcome.kind # "ctor_error"
    THEN store_reply(state, respond(state.user_message, outcome))
    ELSE state

engage_node(state, outcome) ==
    IF state.is_complete THEN state
    ELSE IF outcome.kind # "ctor_error"
    THEN store_reply(state, respond(state.user_message, outcome))
    ELSE store_reply(state, FALLBACK_RESPONSE)

\* check_exit_node with  turns > MAX_TURNS  for  turns >= MAX_TURNS
check_exit_node_off_by_one(state) ==
    IF state.turns > MAX_TURNS
    THEN [state EXCEPT !.is_complete = TRUE,
                       !.stop_reason = Some(MAX_TURNS_STOP)]
    ELSE IF IsBlank(state.user_message)
    THEN [state EXCEPT !.is_complete = TRUE,
                       !.stop_reason = Some(EMPTY_INPUT_STOP)]
    ELSE state

\* the exit tests in the other order: the blank message first
exit_reason_blank_first(turns, user_message) ==
    IF IsBlank(user_message) THEN Some(EMPTY_INPUT_STOP)
    ELSE IF turns >= MAX_TURNS THEN Some(MAX_TURNS_STOP)
    ELSE None

\* lines 127-140: the stop reason, or None when the session stays open
exit_reason(turns, user_message) ==
    IF turns >= MAX_TURNS THEN Some(MAX_TURNS_STOP)
    ELSE IF IsBlank(user_message) THEN Some(EMPTY_INPUT_STOP)
    ELSE None

\* lines 130-131 and 137-138: the stop recorded in the state
stopped(state, reason) ==
    IF reason = None THEN state
    ELSE [state EXCEPT !.is_complete = TRUE, !.stop_reason = reason]

check_exit_node(state) ==
    stopped(state, exit_reason(state.turns, state.user_message))

route_after_classify(state) ==
    IF state.is_complete THEN "end"
    ELSE IF state.classification # None /\ ~Val(state.classification).is_scam
    THEN "end"
    ELSE "engage"

(***************************************************************************)
(* EngagementOrchestrator                                                  *)
(***************************************************************************)
\* a new session whose transcript already holds a greeting of the agent
NewState_with_greeting(session_id, message) ==
    [session_id |-> session_id, user_message |-> message, turns |-> 0,
     conversation |-> <<Message("agent", FALLBACK_RESPONSE)>>,
     is_complete |-> FALSE, classification |-> None,
     agent_reply |-> None, stop_reason |-> None, extracted_intel |-> None]

NewState(session_id, message) ==
    [session_id |-> session_id, user_message |-> message, turns |-> 0,
     conversation |-> <<>>, is_complete |-> FALSE, classification |-> None,
     agent_reply |-> None, stop_reason |-> None, extracted_intel |-> None]

\* _run_extraction without the empty result of its except clause
run_extraction_keeps_none(state, outcome) ==
    IF outcome.kind # "ctor_error"
    THEN [state EXCEPT
            !.extracted_intel = Some(extract(state.conversation, outcome))]
    ELSE state

run_extraction(state, outcome) ==
    IF outcome.kind # "ctor_error"
    THEN [state EXCEPT
            !.extracted_intel = Some(extract(state.conversation, outcome))]
    ELSE [state EXCEPT !.extracted_intel = Some(EmptyIntel)]

\* the state process_message starts from: the stored one with the new
\* message, or a fresh one
entry_state(store, session_id, message) ==
    IF store[session_id] # None
    THEN [Val(store[session_id]) EXCEPT !.user_message = message]
    ELSE NewState(session_id, message)

\* the edges after classify: to the end, or engage and then check_exit
after_classify(s1, r) ==
    IF route_after_classify(s1) = "end"
    THEN [state |-> s1, invoked |-> {"classifier"}]
    ELSE [state |-> check_exit_node(engage_node(s1, r)),
          invoked |-> {"classifier", "responder"}]

\* self._graph.invoke(state): the resulting state, and the nodes' agents
graph_invoke(state, c, r) == after_classify(classify_node(state, c), r)

\* the extraction condition without the is_scam test
needs_extraction_any_verdict(result) ==
    /\ result.is_complete
    /\ result.extracted_intel = None

needs_extraction(result) ==
    /\ result.is_complete
    /\ result.extracted_intel = None
    /\ result.classification # None
    /\ Val(result.classification).is_scam

\* lines 273-277: extraction when the call completed a scam session
with_extraction(g, e) ==
    IF needs_extraction(g.state)
    THEN [state |-> run_extraction(g.state, e),
          invoked |-> g.invoked \cup {"extractor"}]
    ELSE g

\* process_from without the early return for a completed session
process_from_no_guard(state, c, r, e) ==
    with_extraction(graph_invoke(state, c, r), e)

\* lines 266-282: the early return, or the graph and the extraction
process_from(state, c, r, e) ==
    IF state.is_complete THEN [state |-> state, invoked |-> {}]
    ELSE with_extraction(graph_invoke(state, c, r), e)

\* process_message for the outcomes c, r, e of the classifier, the responder
\* and the extractor: the state it stores and returns, and the collaborators
\* it invokes on the way
process_message(store, session_id, message, c, r, e) ==
    process_from(entry_state(store, session_id, message), c, r, e)

get_session(store, session_id) == store[session_id]

\* the two assignments of end_session, with the turn counter reset as well
ended_resets_turns(state, reason) ==
    [state EXCEPT !.is_complete = TRUE, !.stop_reason = Some(reason),
                  !.turns = 0]

\* lines 341-342: the two assignments of end_session
ended(state, reason) ==
    [state EXCEPT !.is_complete = TRUE, !.stop_reason = Some(reason)]

\* end_session that also discards the indicators already extracted
end_session_resets_intel(store, session_id, reason) ==
    IF store[session_id] # None
    THEN [store EXCEPT ![session_id] =
            Some([Val(@) EXCEPT !.is_complete = TRUE,
                                !.stop_reason = Some(reason),
                                !.extracted_intel = None])]
    ELSE store

end_session(store, session_id, reason) ==
    IF store[session_id] # None
    THEN [store EXCEPT ![session_id] = Some(ended(Val(@), reason))]
    ELSE store

\* clear_session that leaves the store as it is
clear_session_noop(store, session_id) == store

clear_session(store, session_id) == [store EXCEPT ![session_id] = None]

(***************************************************************************)
(* POST /session/{session_id}/end (app/api/routes.py)                      *)
(***************************************************************************)
ROUTE_END_REASON == "Manually ended by user"

\* The handler reads a ConversationState snapshot, ends the stored session
\* and, for a scam snapshot without intel, calls _run_extraction on the
\* snapshot.  The snapshot is a dataclass, not a dict: state.get raises
\* inside the try, the item assignment in the except handler raises again,
\* and the error leaves the handler (HTTP 500) with nothing extracted.
route_end_status(store, session_id) ==
    LET state == get_session(store, session_id)
    IN  IF state = None THEN "404"
        ELSE IF /\ Val(state).classification # None
                /\ Val(state).classification[1].is_scam
                /\ Val(state).extracted_intel = None
        THEN "500"
        ELSE "200"

\* the handler ending every stored session
route_end_store_all(store, session_id) ==
    IF get_session(store, session_id) = None THEN store
    ELSE [s \in DOMAIN store |->
            IF store[s] = None THEN None
            ELSE Some(ended(Val(store[s]), ROUTE_END_REASON))]

route_end_store(store, session_id) ==
    IF get_session(store, session_id) = None THEN store
    ELSE end_session(store, session_id, ROUTE_END_REASON)

(***************************************************************************)
(* State machine                                                           *)
(*   sessions : EngagementOrchestrator._sessions                           *)
(*   last     : the last call: its message, the classifier outcome it      *)
(*              drew, what it invoked, which of the responder and the      *)
(*              extractor failed, and what it returned                     *)
(*   hist     : per session, the number of process calls since it was      *)
(*              created and whether they were all non-blank messages       *)
(*              classified scam with no forced end (first six calls)       *)
(***************************************************************************)
EndReasons == {"Manually ended"}

Call(op, sid, message, classifier, invoked, ret, status) ==
    [op |-> op, sid |-> sid, message |-> message, classifier |-> classifier,
     invoked |-> invoked, failed |-> {}, ret |-> ret, status |-> status]

\* the agent could not be constructed, or its model call raised or gave
\* nothing (the model is not called for a blank message)
Fails(message, outcome) ==
    \/ outcome.kind = "ctor_error"
    \/ /\ ~IsBlank(message)
       /\ outcome.kind = "raise" \/ outcome.content = <<>>

\* the invoked collaborators that failed: the responder, and the extractor
\* when _run_extraction took its except clause
FailedIn(invoked, message, r, e) ==
    { a \in invoked : \/ a = "responder" /\ Fails(message, r)
                      \/ a = "extractor" /\ e.kind = "ctor_error" }

Init ==
    /\ sessions = [sid \in SessionIds |-> None]
    /\ last = Call("init", "", <<>>, Raises, {}, None, "ok")
    /\ hist = [sid \in SessionIds |-> [calls |-> 0, scam_only |-> TRUE]]

\* outcomes that make a difference: a collaborator that is not called, or
\* that answers a blank message without calling the model, draws one outcome
ClassifierChoices(state) ==
    IF state.is_complete THEN {Raises}
    ELSE IF IsBlank(state.user_message) THEN {CtorError, Raises}
    ELSE ClassifierOutcomes

ResponderChoices(message, invoked) ==
    IF "responder" \notin invoked \/ IsBlank(message)
    THEN {Raises}
    ELSE ResponderOutcomes

ExtractorChoices(invoked) ==
    IF "extractor" \notin invoked THEN {Raises} ELSE ExtractorOutcomes

ProcessMessage(sid, message) ==
    /\ hist[sid].calls < MaxCalls
    /\ \E c \in ClassifierChoices(entry_state(sessions, sid, message)) :
       \E r \in ResponderChoices(
                    message,
                    process_message(sessions, sid, message, c,
                                    Raises, Raises).invoked) :
       \E e \in ExtractorChoices(
                    process_message(sessions, sid, message, c,
                                    r, Raises).invoked) :
       \E out \in {process_message(sessions, sid, message, c, r, e)} :
           /\ sessions' = [sessions EXCEPT ![sid] = Some(out.state)]
           /\ last' = [Call("process", sid, message, c, out.invoked,
                            Some(out.state), "ok")
                         EXCEPT !.failed =
                                    FailedIn(out.invoked, message, r, e)]
           /\ hist' = [hist EXCEPT ![sid] =
                         [calls |-> @.calls + 1,
                          scam_only |->
                              IF @.calls < MAX_TURNS
                              THEN /\ @.scam_only
                                   /\ out.invoked # {}
                                   /\ ~IsBlank(message)
                                   /\ Val(out.state.classification).is_scam
                              ELSE @.scam_only]]

GetSession(sid) ==
    /\ last' = Call("get", sid, <<>>, Raises, {}, get_session(sessions, sid),
                    IF get_session(sessions, sid) = None
                    THEN "absent" ELSE "ok")
    /\ UNCHANGED <<sessions, hist>>

EndSession(sid, reason) ==
    /\ sessions' = end_session(sessions, sid, reason)
    /\ last' = Call("end", sid, <<>>, Raises, {}, None, "ok")
    /\ hist' = [hist EXCEPT ![sid].scam_only =
                  IF sessions[sid] # None THEN FALSE ELSE @]

\* clear_session returns nothing; the status of the call names what the
\* call removed from the store
ClearSession(sid) ==
    /\ sessions' = clear_session(sessions, sid)
    /\ last' = Call("clear", sid, <<>>, Raises, {}, None,
                    IF sessions[sid] = None THEN "cleared_nothing"
                    ELSE IF Val(sessions[sid]).is_complete
                    THEN "cleared_complete" ELSE "cleared_open")
    /\ hist' = [hist EXCEPT ![sid] = [calls |-> 0, scam_only |-> TRUE]]

RouteEndSession(sid) ==
    /\ sessions' = route_end_store(sessions, sid)
    /\ last' = Call("route_end", sid, <<>>, Raises, {},
                    IF route_end_status(sessions, sid) = "200"
                    THEN get_session(sessions, sid) ELSE None,
                    route_end_status(sessions, sid))
    /\ hist' = [hist EXCEPT ![sid].scam_only =
                  IF sessions[sid] # None THEN FALSE ELSE @]

Next ==
    \E sid \in SessionIds :
        \/ \E message \in Messages : ProcessMessage(sid, message)
        \/ GetSession(sid)
        \/ \E reason \in EndReasons : EndSession(sid, reason)
        \/ ClearSession(sid)
        \/ RouteEndSession(sid)

Spec == Init /\ [][Next]_vars

(***************************************************************************)
(* The classifier on its own: Init draws a message and a model response,  *)
(* Classify applies classify to them                                       *)
(***************************************************************************)
ClassifyDocs == JsonDocNames

ClassifyResponses ==
    { Raises, Content(<<>>), Content(<<" ">>),
      Content(<<"Sure,", "here", "is", "the", "verdict">>) }
    \cup { Content(<<d>>) : d \in ClassifyDocs }
    \cup { Content(<<"<fence>json", d, "<fence>">>) : d \in ClassifyDocs }
    \cup { Content(<<"\n", "<fence>", d>>) : d \in ClassifyDocs }

InitClassify ==
    /\ sessions = [sid \in SessionIds |-> None]
    /\ hist = [sid \in SessionIds |-> [calls |-> 0, scam_only |-> TRUE]]
    /\ \E message \in Messages, response \in ClassifyResponses :
           last = Call("input", "", message, response, {}, None, "ok")

Classify ==
    /\ last.op = "input"
    /\ last' = Call("classify", "", last.message, last.classifier, {},
                    Some(classify(last.message, last.classifier)), "ok")
    /\ UNCHANGED <<sessions, hist>>

NextClassify == Classify

SpecClassify == InitClassify /\ [][NextClassify]_vars

(***************************************************************************)
(* Properties                                                              *)
(***************************************************************************)
Exists(sid) == sessions[sid] # None

S(sid) == Val(sessions[sid])

\* the step just taken is one of the named operations on session sid
Step(ops, sid) == last'.op \in ops /\ last'.sid = sid

AgentEntries(conversation) ==
    Len(SelectSeq(conversation, LAMBDA m : m.role = "agent"))

\* C1: in every reachable state every session has 0 <= turns <= 6, and so
\* has every state a process or get call returns
C1_TurnsWithinCeiling ==
    /\ \A sid \in SessionIds :
           Exists(sid) => S(sid).turns \in 0..MAX_TURNS
    /\ (last.op \in {"process", "get"} /\ last.ret # None)
           => Val(last.ret).turns \in 0..MAX_TURNS

C1_Witness ==
    \E sid \in SessionIds :
        /\ Exists(sid)
        /\ S(sid).turns = MAX_TURNS
        /\ last.op = "process"

\* C2: a completed session stays completed under process and end (direct or
\* through the HTTP route), and a process call on it invokes no collaborator
\* and returns turns, conversation, classification, agent_reply, stop_reason
\* and extracted_intel as they were stored
C2_CompleteIsSticky ==
    [][\A sid \in SessionIds :
         (Exists(sid) /\ S(sid).is_complete
            /\ Step({"process", "end", "route_end"}, sid))
         => /\ sessions'[sid] # None
            /\ Val(sessions'[sid]).is_complete
            /\ last'.op = "process" =>
                 /\ last'.invoked = {}
                 /\ Val(last'.ret).is_complete
                 /\ Val(last'.ret).turns = S(sid).turns
                 /\ Val(last'.ret).conversation = S(sid).conversation
                 /\ Val(last'.ret).classification = S(sid).classification
                 /\ Val(last'.ret).agent_reply = S(sid).agent_reply
                 /\ Val(last'.ret).stop_reason = S(sid).stop_reason
                 /\ Val(last'.ret).extracted_intel = S(sid).extracted_intel
                 /\ sessions'[sid] = last'.ret]_vars

C2_Witness ==
    \E sid \in SessionIds :
        /\ Exists(sid)
        /\ S(sid).is_complete
        /\ last.op = "process"
        /\ last.sid = sid
        /\ last.invoked = {}
        /\ ~IsBlank(last.message)
        /\ hist[sid].calls >= 2

\* C3: after six process calls a session is complete; while every message
\* so far was non-blank and classified scam (and no end was forced) the
\* session is open with turns = calls through call 5, complete at call 6
\* with turns = 6 and the maximum-turns stop reason, and a later call
\* returns is_complete with no responder invocation and no seventh reply
C3_CompleteWithinSixCalls ==
    \A sid \in SessionIds :
        /\ hist[sid].calls >= MAX_TURNS
               => Exists(sid) /\ S(sid).is_complete
        /\ (hist[sid].scam_only /\ hist[sid].calls \in 1..(MAX_TURNS - 1))
               => /\ Exists(sid)
                  /\ ~S(sid).is_complete
                  /\ S(sid).turns = hist[sid].calls
        /\ (hist[sid].scam_only /\ hist[sid].calls = MAX_TURNS)
               => /\ S(sid).turns = MAX_TURNS
                  /\ S(sid).stop_reason = Some(MAX_TURNS_STOP)
        /\ (hist[sid].scam_only /\ hist[sid].calls > MAX_TURNS
              /\ last.op = "process" /\ last.sid = sid)
               => /\ Val(last.ret).is_complete
                  /\ "responder" \notin last.invoked
                  /\ Val(last.ret).turns = MAX_TURNS
                  /\ AgentEntries(Val(last.ret).conversation) = MAX_TURNS

C3_Witness ==
    \E sid \in SessionIds :
        /\ hist[sid].scam_only
        /\ hist[sid].calls = MAX_TURNS + 1
        /\ last.op = "process"
        /\ last.sid = sid
        /\ ~IsBlank(last.message)
        /\ Val(last.ret).is_complete

\* C4: a process call on an open (or new) session whose message is
\* classified not-scam invokes no responder, keeps turns, appends exactly
\* the user entry, and completes the session with the benign stop reason;
\* on a first message agent_reply stays null
C4_BenignStopsWithoutEngagement ==
    [][\A sid \in SessionIds :
         (/\ Step({"process"}, sid)
          /\ "classifier" \in last'.invoked
          /\ ~Val(Val(last'.ret).classification).is_scam)
         => LET old == entry_state(sessions, sid, last'.message)
                new == Val(sessions'[sid])
            IN  /\ "responder" \notin last'.invoked
                /\ new.turns = old.turns
                /\ new.conversation =
                       Append(old.conversation,
                              Message("user", last'.message))
                /\ new.is_complete
                /\ new.stop_reason = Some(BENIGN_STOP)
                /\ last'.ret = sessions'[sid]
                /\ ~Exists(sid) =>
                       /\ new.agent_reply = None
                       /\ new.turns = 0
                       /\ hist'[sid].calls = 1]_vars

C4_Witness ==
    \E sid \in SessionIds :
        /\ Exists(sid)
        /\ last.op = "process"
        /\ last.sid = sid
        /\ hist[sid].calls = 1
        /\ ~Val(S(sid).classification).is_scam
        /\ S(sid).agent_reply = None
        /\ S(sid).is_complete

\* C5: extracted_intel is non-null only in a completed session whose stored
\* classification is a scam verdict
C5_IntelOnlyForCompletedScam ==
    \A sid \in SessionIds :
        (Exists(sid) /\ S(sid).extracted_intel # None)
            => /\ S(sid).is_complete
               /\ S(sid).classification # None
               /\ Val(S(sid).classification).is_scam

C5_Witness ==
    \E sid \in SessionIds :
        /\ Exists(sid)
        /\ S(sid).extracted_intel # None
        /\ "extractor" \in last.invoked

\* C6: every completed session with a scam verdict has its indicators
\* extracted, however it was completed (turn ceiling, blank message, forced
\* end)
C6_CompletedScamHasIntel ==
    \A sid \in SessionIds :
        (/\ Exists(sid)
         /\ S(sid).is_complete
         /\ S(sid).classification # None
         /\ Val(S(sid).classification).is_scam)
            => S(sid).extracted_intel # None

\* C7: once extracted_intel is non-null, no process or end call (direct or
\* through the HTTP route) changes it or invokes an extractor
C7_ExtractionAtMostOnce ==
    [][\A sid \in SessionIds :
         (/\ Exists(sid)
          /\ S(sid).extracted_intel # None
          /\ Step({"process", "end", "route_end"}, sid))
         => /\ sessions'[sid] # None
            /\ Val(sessions'[sid]).extracted_intel = S(sid).extracted_intel
            /\ "extractor" \notin last'.invoked]_vars

C7_Witness ==
    \E sid \in SessionIds :
        /\ Exists(sid)
        /\ S(sid).extracted_intel = Some(EmptyIntel)
        /\ last.op \in {"end", "route_end"}
        /\ last.sid = sid
        /\ hist[sid].calls >= 2

\* C8: stop_reason is null exactly while the session is open, and once set
\* no process or end call changes it
C8_StopReasonSetOnce ==
    /\ [](\A sid \in SessionIds :
             Exists(sid) => (S(sid).stop_reason = None <=> ~S(sid).is_complete))
    /\ [][\A sid \in SessionIds :
            (/\ Exists(sid)
             /\ S(sid).stop_reason # None
             /\ Step({"process", "end", "route_end"}, sid))
            => /\ sessions'[sid] # None
               /\ Val(sessions'[sid]).stop_reason = S(sid).stop_reason]_vars

\* a model response that is the verdict the prompt asks for: a JSON object
\* with a boolean is_scam, a numeric confidence and a string reason
WellFormedVerdict(content) ==
    LET parsed == json_loads(strip_fences(content))
        data == parsed.data
    IN  /\ parsed.ok
        /\ data.t = "obj"
        /\ {"is_scam", "confidence", "reason"} \subseteq DOMAIN data.f
        /\ data.f.is_scam.t = "bool"
        /\ data.f.confidence.t \in {"num", "nan"}
        /\ data.f.reason.t = "str"

\* model call error, empty response, unparseable or non-object JSON, a
\* missing or a mistyped field
ModelFailure(response) ==
    \/ response.kind = "raise"
    \/ response.content = <<>>
    \/ ~WellFormedVerdict(response.content)

\* C9: on a non-blank message every classification failure yields exactly
\* (is_scam = true, confidence = 0.7, "Unreliable classification output")
C9_FailuresYieldFailSafe ==
    (/\ last.op = "classify"
     /\ ~IsBlank(last.message)
     /\ ModelFailure(last.classifier))
        => Val(last.ret) = FailSafe

\* C10: when the classification of a processed message failed at any stage
\* (construction, model call, empty or unusable output, blank input) the
\* stored verdict is a scam verdict, the session is not closed as benign and
\* the message is engaged
C10_FailureStoredAsScam ==
    \A sid \in SessionIds :
        (/\ last.op = "process"
         /\ last.sid = sid
         /\ "classifier" \in last.invoked
         /\ \/ IsBlank(last.message)
            \/ last.classifier.kind = "ctor_error"
            \/ ModelFailure(last.classifier))
            => /\ Val(S(sid).classification).is_scam
               /\ S(sid).stop_reason # Some(BENIGN_STOP)
               /\ "responder" \in last.invoked

\* C11: for every message and every model output classify returns a
\* confidence in [0, 1] (hundredths 0..100) and a reason of at most 25
\* words; a reason of more than 25 words comes back as its first 25 words
\* with the ellipsis appended
C11_ConfidenceAndReasonBounded ==
    last.op = "classify"
        => /\ Val(last.ret).confidence \in 0..100
           /\ Len(split(Val(last.ret).reason.words)) <= 25
           /\ (/\ ~IsBlank(last.message)
               /\ last.classifier = Content(<<"reason_long">>))
                  => Val(last.ret).reason =
                         [words |-> SubSeq(LongReason, 1, 25),
                          ellipsis |-> TRUE]

\* an out-of-range confidence was clamped and an over-long reason was cut
C11_Witness ==
    /\ last.op = "classify"
    /\ ~IsBlank(last.message)
    /\ \/ /\ last.classifier = Content(<<"confidence_high">>)
          /\ Val(last.ret).confidence = 100
       \/ /\ last.classifier = Content(<<"reason_long">>)
          /\ Val(last.ret).reason.ellipsis

(***************************************************************************)
(* The responder on its own: Init draws a message and a raw model          *)
(* response, Respond applies respond to them                               *)
(***************************************************************************)
RawCores ==
    { <<"as", "an", "AI">>, <<"payment", "sent">>,
      <<"https://pay.example">>, <<"www.pay.example">>, <<"Okay", "sir">> }

\* a core as the model may send it: plain, in bold, with a markdown or an
\* emoji lexeme after its first word, after three sentences, and padded
RawVariants(p) ==
    { p,
      <<"**">> \o p \o <<"**">>,
      <<Head(p), "*">> \o Tail(p),
      <<Head(p), "<emoji>">> \o Tail(p),
      <<"One", ".", "Two", "!", "Three", "?">> \o p \o <<".">>,
      <<" ">> \o p \o <<"\n">> }

\* raw outputs without a word: whitespace, markdown characters, emoji
WordlessOutputs ==
    { <<" ", "\n">>, <<"**">>, <<"<emoji>">>, <<"#", " ", "<emoji>">> }

RespondResponses ==
    { Raises, Content(<<>>) }
    \cup { Content(t) : t \in WordlessOutputs }
    \cup UNION { { Content(t) : t \in RawVariants(p) } : p \in RawCores }

InitRespond ==
    /\ sessions = [sid \in SessionIds |-> None]
    /\ hist = [sid \in SessionIds |-> [calls |-> 0, scam_only |-> TRUE]]
    /\ \E message \in Messages, response \in RespondResponses :
           last = Call("input", "", message, response, {}, None, "ok")

Respond ==
    /\ last.op = "input"
    /\ last' = Call("respond", "", last.message, last.classifier, {},
                    Some(respond(last.message, last.classifier)), "ok")
    /\ UNCHANGED <<sessions, hist>>

NextRespond == Respond

SpecRespond == InitRespond /\ [][NextRespond]_vars

\* C12: for every input and every raw model output the text respond returns
\* contains no URL and matches none of the unsafe patterns
C12_ReplyIsSafe ==
    last.op = "respond"
        => /\ ~matches_url(Val(last.ret))
           /\ ~matches_unsafe(Val(last.ret))

\* C13: respond returns exactly the fallback sentence when the message is
\* empty or blank, when the model call fails and when the content is empty
C13_FallbackOnBlankOrFailure ==
    (/\ last.op = "respond"
     /\ \/ IsBlank(last.message)
        \/ last.classifier.kind = "raise"
        \/ last.classifier.content = <<>>)
        => Val(last.ret) = FALLBACK_RESPONSE

\* a whitespace-only message met a model that would have answered
C13_Witness ==
    /\ last.op = "respond"
    /\ last.message = <<" ", "\n">>
    /\ last.classifier = Content(<<"Okay", "sir">>)
    /\ Val(last.ret) = FALLBACK_RESPONSE

(***************************************************************************)
(* The extractor on its own: Init draws a conversation (kept in            *)
(* last.message) and the outcome of the model-assisted extraction (kept in *)
(* last.classifier), Extract applies extract to them                       *)
(***************************************************************************)
ExtractTexts ==
    { <<"account", "number", ":", "123456789012345">>,
      <<"a/c", ":", "123456789012345", "and", "a/c", "123456789012345">>,
      <<"Call", "me", "at", "9876543210">>,
      <<"Call", "my", "mac", "9876543210">>,
      <<"pay", "Fraud@YBL", "or", "fraud@ybl">>,
      <<"ifsc", "sbin0001234", "SBIN0001234">>,
      <<"visit", "https://pay.example", "bit.ly/x1">>,
      ScamText,
      <<"hello">> }

ExtractConversations ==
    { <<>> }
    \cup { <<Message("user", t)>> : t \in ExtractTexts }
    \cup { <<Message("user", t), Message("agent", OkReply)>> :
             t \in ExtractTexts }

ExtractResponses ==
    { NoClient, Raises, Content(<<>>),
      Content(<<"Sure,", "here", "is", "the", "result">>) }
    \cup { Content(<<d>>) : d \in IntelDocNames }
    \cup { Content(<<"<fence>json", d, "<fence>">>) : d \in IntelDocNames }

InitExtract ==
    /\ sessions = [sid \in SessionIds |-> None]
    /\ hist = [sid \in SessionIds |-> [calls |-> 0, scam_only |-> TRUE]]
    /\ \E conversation \in ExtractConversations, llm \in ExtractResponses :
           last = Call("input", "", conversation, llm, {}, None, "ok")

Extract ==
    /\ last.op = "input"
    /\ last' = Call("extract", "", last.message, last.classifier, {},
                    Some(extract(last.message, last.classifier)), "ok")
    /\ UNCHANGED <<sessions, hist>>

NextExtract == Extract

SpecExtract == InitExtract /\ [][NextExtract]_vars

\* the deterministic result for the conversation of the last extract call
RegexFloor == extract_via_regex(format_conversation(last.message))

\* the model output is a JSON object with exactly the four indicator fields,
\* each a list of strings
ExactSchema(llm) ==
    /\ llm.kind = "content"
    /\ llm.content # <<>>
    /\ LET parsed == intel_json_loads(strip_fences(llm.content))
       IN  /\ parsed.ok
           /\ parsed.data.t = "obj"
           /\ DOMAIN parsed.data.f = IntelFields
           /\ \A k \in IntelFields :
                  /\ parsed.data.f[k].t = "list"
                  /\ \A i \in 1..Len(parsed.data.f[k].items) :
                         parsed.data.f[k].items[i].t = "str"

\* C15: unless the model output is a JSON object with exactly the four
\* indicator-list fields, each a list of strings, nothing of it is adopted:
\* extract returns exactly the deterministic result
C15_AdoptedOnlyOnExactSchema ==
    (/\ last.op = "extract"
     /\ last.message # <<>>
     /\ ~ExactSchema(last.classifier))
        => Val(last.ret) = RegexFloor

\* the elements of a list
Elems(xs) == { xs[i] : i \in 1..Len(xs) }

\* x occurs in the text, up to the case normalisation of the extractor
OccursIn(x, text) ==
    \E i \in 1..Len(text) :
        x = text[i] \/ x = lower(text[i]) \/ x = upper(text[i])

\* C16: every string in every category of the result of extract occurs in
\* the transcript it was extracted from, up to case normalisation
C16_NothingFabricated ==
    last.op = "extract"
        => \A k \in IntelFields :
               \A x \in Elems(Val(last.ret)[k]) :
                   OccursIn(x, format_conversation(last.message))

NoDuplicates(xs) ==
    \A i, j \in 1..Len(xs) : xs[i] = xs[j] => i = j

\* C17: in the result of extract no category holds a string twice, every
\* UPI id is lowercase and every IFSC code is uppercase
C17_UniqueAndNormalised ==
    last.op = "extract"
        => /\ \A k \in IntelFields : NoDuplicates(Val(last.ret)[k])
           /\ \A x \in Elems(Val(last.ret).upi_ids) : lower(x) = x
           /\ \A x \in Elems(Val(last.ret).other_indicators) :
                  x \in IfscLexemes => upper(x) = x

\* one of the account keywords, as a word of its own, precedes position i
\* with at most one number word and only separators in between
RECURSIVE keyword_before(_, _, _)
keyword_before(text, i, seen_number_word) ==
    IF i < 1 THEN FALSE
    ELSE IF text[i] \in KeywordWords THEN TRUE
    ELSE IF text[i] \in Separators
    THEN keyword_before(text, i - 1, seen_number_word)
    ELSE IF text[i] \in NumberWords /\ ~seen_number_word
    THEN keyword_before(text, i - 1, TRUE)
    ELSE FALSE

\* C18: the deterministic extractor reports a digit run as a bank account
\* only where an account keyword precedes the run; a run after ordinary
\* words is never reported
C18_AccountNeedsKeyword ==
    (last.op = "extract" /\ last.classifier = NoClient)
        => \A x \in Elems(Val(last.ret).bank_accounts) :
               \E i \in 1..Len(format_conversation(last.message)) :
                   /\ format_conversation(last.message)[i] = x
                   /\ keyword_before(format_conversation(last.message),
                                     i - 1, FALSE)

\* C14: when a process call completes a scam session and the extractor
\* runs, extracted_intel holds every indicator the deterministic extractor
\* finds in the whole transcript, whatever the model-assisted extraction
\* gave (a valid result, an invalid one, a failure, no client)
C14_DeterministicFloorKept ==
    \A sid \in SessionIds :
        (/\ last.op = "process"
         /\ last.sid = sid
         /\ "extractor" \in last.invoked
         /\ "extractor" \notin last.failed)
            => /\ S(sid).conversation # <<>>
               /\ S(sid).conversation[Len(S(sid).conversation) - 1] =
                      Message("user", last.message)
               /\ \A k \in IntelFields :
                      Elems(extract_via_regex(
                                format_conversation(S(sid).conversation))[k])
                          \subseteq Elems(Val(S(sid).extracted_intel)[k])

\* a scam session closed by its sixth turn; the UPI id of its transcript is
\* in the stored indicators
C14_Witness ==
    \E sid \in SessionIds :
        /\ last.op = "process"
        /\ last.sid = sid
        /\ "extractor" \in last.invoked
        /\ "extractor" \notin last.failed
        /\ Exists(sid)
        /\ S(sid).turns = MAX_TURNS
        /\ "scammer@upi" \in Elems(Val(S(sid).extracted_intel).upi_ids)

\* C19: when the extraction fails as a scam session completes, process
\* returns normally and the session stores the all-empty indicator set
C19_FailedExtractionStoresEmpty ==
    \A sid \in SessionIds :
        (/\ last.op = "process"
         /\ last.sid = sid
         /\ "extractor" \in last.failed)
            => /\ last.status = "ok"
               /\ last.ret = sessions[sid]
               /\ S(sid).is_complete
               /\ S(sid).extracted_intel =
                      Some([bank_accounts |-> <<>>, upi_ids |-> <<>>,
                            phishing_links |-> <<>>,
                            other_indicators |-> <<>>])

\* the extraction failed on a transcript that holds a UPI id
C19_Witness ==
    \E sid \in SessionIds :
        /\ last.op = "process"
        /\ last.sid = sid
        /\ "extractor" \in last.failed
        /\ Exists(sid)
        /\ extract_via_regex(format_conversation(S(sid).conversation)).upi_ids
               # <<>>
        /\ S(sid).extracted_intel = Some(EmptyIntel)

\* C20: process always returns, with a non-null classification, whatever
\* the message and whichever collaborator fails; a failing classifier
\* contributes a scam verdict, a failing responder the fallback sentence
\* (and the turn is counted), a failing extractor the empty indicator set
C20_ProcessAlwaysReturns ==
    \A sid \in SessionIds :
        (last.op = "process" /\ last.sid = sid)
            => /\ last.status = "ok"
               /\ last.ret # None
               /\ last.ret = sessions[sid]
               /\ S(sid).classification # None
               /\ S(sid).user_message = last.message
               /\ ("classifier" \in last.invoked
                   /\ Fails(last.message, last.classifier))
                      => /\ Val(S(sid).classification).is_scam
                         /\ "responder" \in last.invoked
               /\ "responder" \in last.failed
                      => /\ S(sid).agent_reply = Some(FALLBACK_RESPONSE)
                         /\ S(sid).conversation[Len(S(sid).conversation)] =
                                Message("agent", FALLBACK_RESPONSE)
                         /\ S(sid).turns >= 1
               /\ "extractor" \in last.failed
                      => S(sid).extracted_intel = Some(EmptyIntel)

\* the classifier and the responder both failed on a non-blank message
C20_Witness ==
    \E sid \in SessionIds :
        /\ last.op = "process"
        /\ last.sid = sid
        /\ ~IsBlank(last.message)
        /\ last.classifier.kind = "ctor_error"
        /\ "responder" \in last.failed
        /\ Exists(sid)
        /\ S(sid).agent_reply = Some(FALLBACK_RESPONSE)

\* the outcomes that tell the caller that the id has no session
NotFound == {"absent", "404"}

\* C21: get and end on an id without a session report a not-found outcome
\* and create no session
C21_UnknownIdReportsNotFound ==
    [][\A sid \in SessionIds :
           (~Exists(sid) /\ Step({"get", "end", "route_end"}, sid))
               => /\ last'.status \in NotFound
                  /\ sessions'[sid] = None]_vars

\* C22: end on an existing open session sets is_complete and stop_reason to
\* the given reason, invokes no agent and leaves turns, conversation,
\* classification and agent_reply as they were
C22_EndOnlyCompletes ==
    [][\A sid \in SessionIds :
           (/\ Exists(sid)
            /\ ~S(sid).is_complete
            /\ Step({"end"}, sid))
               => /\ sessions'[sid] # None
                  /\ Val(sessions'[sid]).is_complete
                  /\ Val(sessions'[sid]).stop_reason \in
                         { Some(reason) : reason \in EndReasons }
                  /\ last'.invoked = {}
                  /\ Val(sessions'[sid]).turns = S(sid).turns
                  /\ Val(sessions'[sid]).conversation = S(sid).conversation
                  /\ Val(sessions'[sid]).classification =
                         S(sid).classification
                  /\ Val(sessions'[sid]).agent_reply = S(sid).agent_reply]_vars

\* an engaged session was ended by hand
C22_Witness ==
    \E sid \in SessionIds :
        /\ last.op = "end"
        /\ last.sid = sid
        /\ Exists(sid)
        /\ S(sid).stop_reason = Some("Manually ended")
        /\ S(sid).turns \in 1..(MAX_TURNS - 1)
        /\ S(sid).extracted_intel = None

\* the session stored by a process call that found no session for the id
Fresh(state, call) ==
    /\ "classifier" \in call.invoked
    /\ state.turns = (IF "responder" \in call.invoked THEN 1 ELSE 0)
    /\ Len(state.conversation) = 1 + state.turns
    /\ state.conversation[1] = Message("user", call.message)
    /\ state.is_complete
           => state.stop_reason \in {Some(BENIGN_STOP), Some(EMPTY_INPUT_STOP)}
    /\ ~state.is_complete
           => state.stop_reason = None /\ state.extracted_intel = None

\* C23: clear removes the session, complete or not, and changes nothing for
\* an unknown id; after it get returns absent and the next process call
\* starts a fresh session
C23_ClearDiscardsSession ==
    [][\A sid \in SessionIds :
           /\ Step({"clear"}, sid)
                  => /\ sessions'[sid] = None
                     /\ ~Exists(sid) => sessions' = sessions
           /\ (last.op = "clear" /\ last.sid = sid /\ Step({"get"}, sid))
                  => last'.status = "absent" /\ last'.ret = None
           /\ (last.op = "clear" /\ last.sid = sid /\ Step({"process"}, sid))
                  => Fresh(Val(sessions'[sid]), last')]_vars

\* a completed session was cleared
C23_Witness ==
    \E sid \in SessionIds :
        /\ last.op = "clear"
        /\ last.sid = sid
        /\ last.status = "cleared_complete"
        /\ ~Exists(sid)

\* the turns of a session, 0 for an id without a session
TurnsOf(store, sid) == IF store[sid] = None THEN 0 ELSE Val(store[sid]).turns

\* the agent entries of a session, 0 for an id without a session
AgentEntriesOf(store, sid) ==
    IF store[sid] = None THEN 0
    ELSE AgentEntries(Val(store[sid]).conversation)

\* C25: the number of agent entries of a transcript equals turns; a process
\* call that runs the engagement (reply or fallback) adds exactly one agent
\* entry and one turn, and no other call changes either
C25_AgentEntriesEqualTurns ==
    [][\A sid \in SessionIds :
           /\ AgentEntriesOf(sessions', sid) = TurnsOf(sessions', sid)
           /\ (Step({"process"}, sid) /\ "responder" \in last'.invoked)
                  => /\ TurnsOf(sessions', sid) = TurnsOf(sessions, sid) + 1
                     /\ AgentEntriesOf(sessions', sid) =
                            AgentEntriesOf(sessions, sid) + 1
           /\ (\/ Step({"process"}, sid) /\ "responder" \notin last'.invoked
               \/ Step({"get", "end", "route_end"}, sid))
                  => /\ TurnsOf(sessions', sid) = TurnsOf(sessions, sid)
                     /\ AgentEntriesOf(sessions', sid) =
                            AgentEntriesOf(sessions, sid)]_vars

\* the responder failed on the third turn of a session and the fallback
\* was counted
C25_Witness ==
    \E sid \in SessionIds :
        /\ last.op = "process"
        /\ last.sid = sid
        /\ "responder" \in last.failed
        /\ Exists(sid)
        /\ S(sid).turns = 3
        /\ AgentEntries(S(sid).conversation) = 3

\* C26: after an engagement the exit check is ordered: six turns complete
\* the session with the maximum-turns reason, also for a blank message;
\* otherwise a blank message (scam by fail-safe, fallback reply, counted)
\* completes it with "Empty user input"; otherwise it stays open
C26_ExitCheckOrdered ==
    \A sid \in SessionIds :
        (/\ last.op = "process"
         /\ last.sid = sid
         /\ "responder" \in last.invoked)
            => IF S(sid).turns >= 6
               THEN /\ S(sid).is_complete
                    /\ S(sid).stop_reason = Some("Maximum turns (6) reached")
               ELSE IF IsBlank(last.message)
               THEN /\ S(sid).is_complete
                    /\ S(sid).stop_reason = Some("Empty user input")
                    /\ Val(S(sid).classification).is_scam
                    /\ S(sid).agent_reply = Some(FALLBACK_RESPONSE)
                    /\ S(sid).turns >= 1
               ELSE /\ ~S(sid).is_complete
                    /\ S(sid).stop_reason = None

\* the sixth turn was a blank message
C26_Witness ==
    \E sid \in SessionIds :
        /\ last.op = "process"
        /\ last.sid = sid
        /\ "responder" \in last.invoked
        /\ IsBlank(last.message)
        /\ Exists(sid)
        /\ S(sid).turns = 6
        /\ S(sid).stop_reason = Some(MAX_TURNS_STOP)

\* C27: the result of a process call whose message was classified benign
\* has a null agent_reply
C27_BenignHasNoReply ==
    (/\ last.op = "process"
     /\ "classifier" \in last.invoked
     /\ ~Val(Val(last.ret).classification).is_scam)
        => Val(last.ret).agent_reply = None

\* the transcript alternates user, agent
Alternates(conversation) ==
    \A i \in 1..Len(conversation) :
        conversation[i].role = (IF i % 2 = 1 THEN "user" ELSE "agent")

\* C30: a stored session that is not complete has 1 to 5 turns, a scam
\* verdict, an agent reply, no stop reason, no indicators, and a transcript
\* of 2 * turns entries that alternates user, agent
C30_OpenSessionShape ==
    \A sid \in SessionIds :
        (Exists(sid) /\ ~S(sid).is_complete)
            => /\ S(sid).turns \in 1..5
               /\ S(sid).classification # None
               /\ Val(S(sid).classification).is_scam
               /\ S(sid).agent_reply # None
               /\ S(sid).stop_reason = None
               /\ S(sid).extracted_intel = None
               /\ Len(S(sid).conversation) = 2 * S(sid).turns
               /\ Alternates(S(sid).conversation)

\* an open session after its fifth turn
C30_Witness ==
    \E sid \in SessionIds :
        /\ Exists(sid)
        /\ ~S(sid).is_complete
        /\ S(sid).turns = 5
        /\ Len(S(sid).conversation) = 10

\* C28: respond returns a non-empty text for every input and every raw
\* model output, also for an output of whitespace, markdown characters or
\* emoji only
C28_ReplyIsNonEmpty ==
    last.op = "respond" => Val(last.ret) # <<>>

(***************************************************************************)
(* Two sessions in one orchestrator.  The handlers are coroutines without  *)
(* an await between their reads and writes of the store and the            *)
(* orchestrator's methods are synchronous, so concurrent requests          *)
(* interleave call by call.                                                *)
(***************************************************************************)
TwoIds == {"s1", "s2"}

\* process calls per session between two clears
TwoCalls == 1

\* the classifier outcomes drawn with two sessions
TwoClassifierOutcomes ==
    { Raises, Content(<<"scam">>), Content(<<"benign">>) }

InitTwo ==
    /\ sessions = [sid \in TwoIds |-> None]
    /\ last = Call("init", "", <<>>, Raises, {}, None, "ok")
    /\ hist = [sid \in TwoIds |-> [calls |-> 0, scam_only |-> TRUE]]

NextTwo ==
    \E sid \in TwoIds :
        \/ \E message \in Messages :
               /\ hist[sid].calls < TwoCalls
               /\ ProcessMessage(sid, message)
               /\ last'.classifier \in TwoClassifierOutcomes
        \/ GetSession(sid)
        \/ \E reason \in EndReasons : EndSession(sid, reason)
        \/ ClearSession(sid)
        \/ RouteEndSession(sid)

SpecTwo == InitTwo /\ [][NextTwo]_vars

\* the store with the session of id a alone
Only(a) == [s \in TwoIds |-> IF s = a THEN sessions[a] ELSE None]

\* C24: a process, end or clear call for one session changes no field of
\* another session, and leaves its own session in the state the same call
\* gives when that session is alone in the store
C24_SessionsIndependent ==
    [][\A a \in TwoIds :
           Step({"process", "get", "end", "route_end", "clear"}, a)
               => /\ \A b \in TwoIds \ {a} : sessions'[b] = sessions[b]
                  /\ last'.op = "get" => sessions'[a] = sessions[a]
                  /\ last'.op = "end"
                         => \E reason \in EndReasons :
                                sessions'[a] =
                                    end_session(Only(a), a, reason)[a]
                  /\ last'.op = "route_end"
                         => sessions'[a] = route_end_store(Only(a), a)[a]
                  /\ last'.op = "clear"
                         => sessions'[a] = clear_session(Only(a), a)[a]
                  /\ last'.op = "process"
                         => \E r \in ResponderOutcomes :
                            \E e \in ExtractorOutcomes :
                                sessions'[a] =
                                    Some(process_message(
                                             Only(a), a, last'.message,
                                             last'.classifier, r, e).state)
      ]_vars

\* a call for s1 was made while s2 held an engaged, open session
C24_Witness ==
    /\ DOMAIN sessions = TwoIds
    /\ last.op \in {"process", "end", "clear"}
    /\ last.sid = "s1"
    /\ sessions["s2"] # None
    /\ ~Val(sessions["s2"]).is_complete
    /\ Val(sessions["s2"]).turns = 1

(***************************************************************************)
(* The main endpoint (app/main.py): honeypot_endpoint over its own        *)
(* orchestrator and its own per-session tracking data.  sessions is the   *)
(* store of that orchestrator; hist holds the module's globals: _sessions *)
(* (tracked), the cached extractor, and the number of processed calls.    *)
(* The indicator lists and notes of SessionData take no part in the       *)
(* decision to report and are left out.  The deployment has its model     *)
(* key configured (line 231), or no request reaches the orchestrator.     *)
(***************************************************************************)
\* processed calls per session
EndpointCalls == 3

\* lines 40-50: the tracking data of a new session
SessionData == [messages_exchanged |-> 0, scam_detected |-> FALSE]

\* lines 74-77: the tracking data of a session, created on first use
main_get_session(tracked, session_id) ==
    IF tracked[session_id] = None
    THEN [tracked EXCEPT ![session_id] = Some(SessionData)]
    ELSE tracked

\* lines 262-267: two more messages exchanged, and the scam flag is set
\* once a call's verdict is scam
tracking_update(session, state) ==
    [messages_exchanged |-> session.messages_exchanged + 2,
     scam_detected |->
         \/ session.scam_detected
         \/ /\ state.classification # None
            /\ Val(state.classification).is_scam]

\* line 318: the condition under which the report is sent
sends_report(state, session) ==
    \/ state.is_complete
    \/ session.scam_detected /\ session.messages_exchanged >= 4

\* lines 140-160: the post is attempted; an exception is swallowed
DeliveryOutcomes == {"report_delivered", "report_failed"}

InitEndpoint ==
    /\ sessions = [sid \in SessionIds |-> None]
    /\ last = Call("init", "", <<>>, Raises, {}, None, "ok")
    /\ hist = [tracked |-> [sid \in SessionIds |-> None],
               calls |-> [sid \in SessionIds |-> 0],
               extractor_built |-> FALSE]

\* lines 220-228: a body in the submission format is answered with a reply
\* only
EndpointSubmission(sid, message) ==
    /\ last' = Call("endpoint", sid, message, Raises, {}, None, "submission")
    /\ UNCHANGED <<sessions, hist>>

\* lines 234-253: no message text, the connectivity answer
EndpointNoMessage(sid) ==
    /\ last' = Call("endpoint", sid, <<>>, Raises, {}, None, "no_message")
    /\ UNCHANGED <<sessions, hist>>

\* lines 255-259, 323-332: the tracking data is created, the extractor
\* cannot be constructed, and the except clause answers
EndpointSetupFails(sid, message) ==
    /\ message # <<>>
    /\ ~hist.extractor_built
    /\ last' = Call("endpoint", sid, message, Raises, {}, None, "error")
    /\ hist' = [hist EXCEPT !.tracked = main_get_session(@, sid)]
    /\ UNCHANGED sessions

\* lines 255-321: the message is processed, the tracking data updated and
\* the report sent when line 318 says so
EndpointProcess(sid, message) ==
    /\ message # <<>>
    /\ hist.calls[sid] < EndpointCalls
    /\ \E c \in ClassifierChoices(entry_state(sessions, sid, message)) :
       \E r \in ResponderChoices(
                    message,
                    process_message(sessions, sid, message, c,
                                    Raises, Raises).invoked) :
       \E e \in ExtractorChoices(
                    process_message(sessions, sid, message, c,
                                    r, Raises).invoked) :
       \E out \in {process_message(sessions, sid, message, c, r, e)} :
       \E session \in {tracking_update(
                           Val(main_get_session(hist.tracked, sid)[sid]),
                           out.state)} :
       \E delivery \in DeliveryOutcomes :
           /\ sessions' = [sessions EXCEPT ![sid] = Some(out.state)]
           /\ last' = [Call("endpoint", sid, message, c, out.invoked,
                            Some(out.state),
                            IF sends_report(out.state, session)
                            THEN delivery ELSE "no_report")
                         EXCEPT !.failed =
                                    FailedIn(out.invoked, message, r, e)]
           /\ hist' = [tracked |-> [hist.tracked EXCEPT
                                        ![sid] = Some(session)],
                       calls |-> [hist.calls EXCEPT ![sid] = @ + 1],
                       extractor_built |-> TRUE]

NextEndpoint ==
    \E sid \in SessionIds :
        \/ \E message \in Messages : EndpointSubmission(sid, message)
        \/ EndpointNoMessage(sid)
        \/ \E message \in Messages : EndpointSetupFails(sid, message)
        \/ \E message \in Messages : EndpointProcess(sid, message)

SpecEndpoint == InitEndpoint /\ [][NextEndpoint]_vars

\* C29: a call of the endpoint that sends the report, delivered or not,
\* leaves the session it reports on complete
C29_ReportOnlyWhenComplete ==
    (last.op = "endpoint" /\ last.status \in DeliveryOutcomes)
        => /\ sessions[last.sid] # None
           /\ Val(sessions[last.sid]).is_complete

====
